---- MODULE Spec2Model ----
(***************************************************************************)
(* Model of the Granger network job of Fund-Link                           *)
(* (apps/worker/scripts/run_granger.py) over the tables of                 *)
(* apps/api/db/models.py.                                                  *)
(*                                                                         *)
(* Committed database state is kept apart from the uncommitted writes of   *)
(* each open session, so that flush, commit and rollback are visible.      *)
(* Dates are small integers.  p-values are integers in units of 1e-7, the  *)
(* stored Numeric(18, 6) columns are integers in units of 1e-6.            *)
(***************************************************************************)
EXTENDS Integers, Sequences, FiniteSets, TLC

\* ------------------------------------------------------------------ bounds
MaxDate == 4
\* calls of run_granger in a behaviour of Spec
MaxRuns == 2
\* calls of run_granger in a behaviour of SpecConc and of SpecRerun
MaxScopeRuns == 3
\* lags of a call of the lag scan in a behaviour of SpecLag
MaxLagLen == 3

Dates == 1..MaxDate
Slots == {1, 2}

\* --------------------------------------------------------- program constants
DEFAULT_TICKERS == <<"^N225", "^TOPX", "USDJPY=X">>
DEFAULT_METHOD == "granger"
DEFAULT_FEATURE_SET_VERSION == "v1_market_daily"

FALLBACK_TICKERS(ticker) == IF ticker = "^TOPX" THEN <<"1306.T">> ELSE <<>>

\* One unit of a float p-value is 1e-7; 1.0 is POne.
POne == 10000000
\* One unit of a Numeric(18, 6) column is 1e-6; Decimal("1.000000") is DecimalOne.
DecimalOne == 1000000

\* ------------------------------------------------- read-only upstream tables
\* symbols: the rows the ingestion scripts left behind.  "^TOPX" has no row
\* (its data is ingested under the fallback "1306.T"); "EURJPY=X" has a row
\* and no feature row yet.
Symbols ==
  { [id |-> 1, ticker |-> "^N225"],
    [id |-> 2, ticker |-> "1306.T"],
    [id |-> 3, ticker |-> "USDJPY=X"],
    [id |-> 4, ticker |-> "EURJPY=X"] }

\* features_daily: one row per symbol and date.  value is the raw JSON entry
\* under the feature key: "num" a finite number, "nan" a NaN, "none" a missing
\* key.  Symbol 2 has a NaN on date 2, symbol 3 has on date 1 only a row of
\* another feature set version.
FeaturesDaily ==
  { [symbol_id |-> 1, date |-> d, feature_set_version |-> DEFAULT_FEATURE_SET_VERSION,
     value |-> "num"] : d \in Dates }
  \cup
  { [symbol_id |-> 2, date |-> d, feature_set_version |-> DEFAULT_FEATURE_SET_VERSION,
     value |-> IF d = 2 THEN "nan" ELSE "num"] : d \in Dates }
  \cup
  { [symbol_id |-> 3, date |-> d, feature_set_version |-> DEFAULT_FEATURE_SET_VERSION,
     value |-> "num"] : d \in Dates \ {1} }
  \cup
  { [symbol_id |-> 3, date |-> 1, feature_set_version |-> "v0", value |-> "num"] }

\* Another content of features_daily: symbols 1, 2 and 3 have a finite value
\* on every date of a longer calendar.
LongDates == 1..(MaxDate + 2)

FeaturesLong ==
  { [symbol_id |-> sid, date |-> d, feature_set_version |-> DEFAULT_FEATURE_SET_VERSION,
     value |-> "num"] : sid \in {1, 2, 3}, d \in LongDates }

FeatureTables == {FeaturesDaily, FeaturesLong}

\* ------------------------------------------------------------------- state
VARIABLES
  jobs,        \* committed rows of table jobs
  snapshots,   \* committed rows of table network_snapshots
  edges,       \* committed rows of table network_edges
  seq,         \* the id sequences of jobs and network_snapshots
  session,     \* per run: the uncommitted writes of its AsyncSession
  run,         \* per run: position and locals of run_granger
  started,     \* number of calls of run_granger so far
  last,        \* the previous call: its arguments and the content it left
  features,    \* rows of table features_daily (read only)
  scan,        \* a call of the lag scan of _evaluate_pair: p-values and result
  response     \* the HTTP response of the frames API being returned

vars == <<jobs, snapshots, edges, seq, session, run, started, last, features,
          scan, response>>

\* --------------------------------------------------------------- pure helpers
\* _to_float: None for a missing, NaN or infinite value.
_to_float(value) == IF value \in {"none", "nan", "inf"} THEN "None" ELSE value

RECURSIVE SortedSeq(_)
SortedSeq(S) ==
  IF S = {} THEN <<>>
  ELSE LET m == CHOOSE x \in S : \A y \in S : x <= y
       IN  <<m>> \o SortedSeq(S \ {m})

SeqRange(s) == { s[i] : i \in 1..Len(s) }

Min2(a, b) == IF a < b THEN a ELSE b

\* _resolve_symbols, inner loop: the first candidate with a symbols row.
RECURSIVE PickCandidate(_, _)
PickCandidate(ticker, candidates) ==
  IF candidates = <<>> THEN <<>>
  ELSE LET found == { s \in Symbols : s.ticker = Head(candidates) }
       IN  IF found = {} THEN PickCandidate(ticker, Tail(candidates))
           ELSE << [requested_ticker |-> ticker,
                    used_ticker |-> Head(candidates),
                    symbol_id |-> (CHOOSE s \in found : TRUE).id] >>

\* _resolve_symbols: one entry per requested ticker that resolves, in order.
RECURSIVE _resolve_symbols(_)
_resolve_symbols(tickers) ==
  IF tickers = <<>> THEN <<>>
  ELSE PickCandidate(Head(tickers), <<Head(tickers)>> \o FALLBACK_TICKERS(Head(tickers)))
       \o _resolve_symbols(Tail(tickers))

\* _load_feature_frame: the pivot of the usable rows of features_daily in
\* [start_date, end_date],
\* columns the symbols with a usable row, index the dates on which every
\* column has one (dropna(how="any")), ascending.
EmptyFrame == [columns |-> {}, index |-> <<>>]

_load_feature_frame(resolved_symbols, start_date, end_date, feature_set_version) ==
  IF resolved_symbols = <<>> THEN EmptyFrame
  ELSE
    LET symbol_ids == { resolved_symbols[i].symbol_id : i \in 1..Len(resolved_symbols) }
        rows == { f \in features :
                    /\ f.symbol_id \in symbol_ids
                    /\ f.date >= start_date
                    /\ f.date <= end_date
                    /\ f.feature_set_version = feature_set_version }
        records == { f \in rows : _to_float(f.value) # "None" }
        columns == { f.symbol_id : f \in records }
        dates == { d \in { f.date : f \in records } :
                     \A c \in columns : \E f \in records : f.symbol_id = c /\ f.date = d }
    IN  IF rows = {} \/ records = {} THEN EmptyFrame
        ELSE [columns |-> columns, index |-> SortedSeq(dates)]

\* DataFrame.empty: some axis has length 0.
FrameEmpty(frame) == frame.columns = {} \/ frame.index = <<>>

\* ------------------------------------------------- the lagged causality test
\* A NaN p-value.
NaN == -1

\* The p-values statsmodels may report, in units of 1e-7.
PTable == <<0, 123456, 499996, 500004, 3000000, 10000000, -1>>

RECURSIVE SumSeq(_)
SumSeq(s) == IF s = <<>> THEN 0 ELSE Head(s) + SumSeq(Tail(s))

\* grangercausalitytests(work[["dst", "src"]], maxlag): a deterministic
\* function of the two series of the window, which are determined by the two
\* symbols and the window's dates.  It raises on some inputs, and reports one
\* ssr_ftest p-value per lag 1..maxlag otherwise.
grangercausalitytests(src, dst, window, maxlag) ==
  [ raised |-> ((2 * src + 2 * dst + 4 * SumSeq(window)) % 5 = 0),
    p |-> [ lag \in 1..maxlag |->
              PTable[((5 * src + 2 * dst + 3 * SumSeq(window) + 6 * lag) % Len(PTable)) + 1] ] ]

\* BestLag that keeps the lag of the first improvement.
RECURSIVE BestLag_FirstLag(_, _, _, _)
BestLag_FirstLag(result, lag, best_p, best_lag) ==
  IF lag > Len(result) THEN [p |-> best_p, lag |-> best_lag]
  ELSE IF result[lag] # NaN /\ result[lag] < best_p
       THEN BestLag_FirstLag(result, lag + 1, result[lag],
                             IF best_lag = 0 THEN lag ELSE best_lag)
       ELSE BestLag_FirstLag(result, lag + 1, best_p, best_lag)

\* BestLag that lets an equal p-value replace the best so far.
RECURSIVE BestLag_OrEqual(_, _, _, _)
BestLag_OrEqual(result, lag, best_p, best_lag) ==
  IF lag > Len(result) THEN [p |-> best_p, lag |-> best_lag]
  ELSE IF result[lag] # NaN /\ result[lag] <= best_p
       THEN BestLag_OrEqual(result, lag + 1, result[lag], lag)
       ELSE BestLag_OrEqual(result, lag + 1, best_p, best_lag)

\* _evaluate_pair, the scan over the lags: a strictly smaller p-value replaces
\* the best so far (a NaN compares false).
RECURSIVE BestLag(_, _, _, _)
BestLag(result, lag, best_p, best_lag) ==
  IF lag > Len(result) THEN [p |-> best_p, lag |-> best_lag]
  ELSE IF result[lag] # NaN /\ result[lag] < best_p
       THEN BestLag(result, lag + 1, result[lag], lag)
       ELSE BestLag(result, lag + 1, best_p, best_lag)

NoResult == [ok |-> FALSE, p |-> 0, lag |-> 0]

\* _evaluate_pair, lines 94-105: the scan starts from best_p = 1.0 and
\* best_lag = 0, and returns None when best_lag is still 0.
ScanLags(result) ==
  LET best == BestLag(result, 1, POne, 0)
  IN  IF best.lag = 0 THEN NoResult
      ELSE [ok |-> TRUE, p |-> best.p, lag |-> best.lag]

\* _evaluate_pair that leaves one row less to the test.
_evaluate_pair_LenMinusOne(src, dst, window, max_lag) ==
  LET effective_max_lag == Min2(max_lag, Len(window) - 1)
  IN  IF effective_max_lag < 1 THEN NoResult
      ELSE LET result == grangercausalitytests(src, dst, window, effective_max_lag)
           IN  IF result.raised THEN NoResult
               ELSE LET best == BestLag(result.p, 1, POne, 0)
                    IN  IF best.lag = 0 THEN NoResult
                        ELSE [ok |-> TRUE, p |-> best.p, lag |-> best.lag]

\* _evaluate_pair with the lags bounded by the window length alone.
_evaluate_pair_NoLagCap(src, dst, window, max_lag) ==
  LET effective_max_lag == Len(window) - 2
  IN  IF effective_max_lag < 1 THEN NoResult
      ELSE LET result == grangercausalitytests(src, dst, window, effective_max_lag)
           IN  IF result.raised THEN NoResult
               ELSE LET best == BestLag(result.p, 1, POne, 0)
                    IN  IF best.lag = 0 THEN NoResult
                        ELSE [ok |-> TRUE, p |-> best.p, lag |-> best.lag]

\* _evaluate_pair: None (NoResult), or the minimum p-value and its lag.  Both
\* series are columns of the same window, so they have the window's length and
\* no missing value.
_evaluate_pair(src, dst, window, max_lag) ==
  LET effective_max_lag == Min2(max_lag, Len(window) - 2)
  IN  IF effective_max_lag < 1 THEN NoResult
      ELSE LET result == grangercausalitytests(src, dst, window, effective_max_lag)
           IN  IF result.raised THEN NoResult
               ELSE ScanLags(result.p)

\* CandidateEdges that gives up the window when the test of a pair raises.
CandidateEdges_AbortOnRaise(columns, window, max_lag, p_threshold) ==
  IF \E pr \in columns \X columns :
       /\ pr[1] # pr[2]
       /\ Min2(max_lag, Len(window) - 2) >= 1
       /\ grangercausalitytests(pr[1], pr[2], window,
                                Min2(max_lag, Len(window) - 2)).raised
  THEN {}
  ELSE { [src_symbol_id |-> src, dst_symbol_id |-> dst,
          p_value |-> _evaluate_pair(src, dst, window, max_lag).p,
          lag |-> _evaluate_pair(src, dst, window, max_lag).lag] :
         <<src, dst>> \in { pr \in columns \X columns :
                              /\ pr[1] # pr[2]
                              /\ _evaluate_pair(pr[1], pr[2], window, max_lag).ok
                              /\ _evaluate_pair(pr[1], pr[2], window, max_lag).p <= p_threshold } }

\* CandidateEdges without the skip of src = dst.
CandidateEdges_WithSelf(columns, window, max_lag, p_threshold) ==
  { [src_symbol_id |-> src, dst_symbol_id |-> dst,
     p_value |-> _evaluate_pair(src, dst, window, max_lag).p,
     lag |-> _evaluate_pair(src, dst, window, max_lag).lag] :
    <<src, dst>> \in { pr \in columns \X columns :
                         /\ _evaluate_pair(pr[1], pr[2], window, max_lag).ok
                         /\ _evaluate_pair(pr[1], pr[2], window, max_lag).p <= p_threshold } }

\* run_granger, the pair loop of one window: the candidate edges.
CandidateEdges(columns, window, max_lag, p_threshold) ==
  { [src_symbol_id |-> src, dst_symbol_id |-> dst,
     p_value |-> _evaluate_pair(src, dst, window, max_lag).p,
     lag |-> _evaluate_pair(src, dst, window, max_lag).lag] :
    <<src, dst>> \in { pr \in columns \X columns :
                         /\ pr[1] # pr[2]
                         /\ _evaluate_pair(pr[1], pr[2], window, max_lag).ok
                         /\ _evaluate_pair(pr[1], pr[2], window, max_lag).p <= p_threshold } }

\* round(p, 6) of a float p-value, as a Numeric(18, 6) value.
Round6(p) == (p + 5) \div 10

\* EdgeRows with the snapshot id stored in the lag column.
EdgeRows_LagFromId(snapshot_id, candidate_edges) ==
  { [snapshot_id |-> snapshot_id,
     source_symbol_id |-> e.src_symbol_id,
     target_symbol_id |-> e.dst_symbol_id,
     weight |-> DecimalOne - Round6(e.p_value),
     p_value |-> Round6(e.p_value),
     lag |-> snapshot_id] : e \in candidate_edges }

\* The network_edges rows run_granger adds for the candidate edges.
EdgeRows(snapshot_id, candidate_edges) ==
  { [snapshot_id |-> snapshot_id,
     source_symbol_id |-> e.src_symbol_id,
     target_symbol_id |-> e.dst_symbol_id,
     weight |-> DecimalOne - Round6(e.p_value),
     p_value |-> Round6(e.p_value),
     lag |-> e.lag] : e \in candidate_edges }

\* --------------------------------------------------------- initial state
NoArgs ==
  [start_date |-> 0, end_date |-> 0, window_size |-> 0, max_lag |-> 0,
   p_threshold |-> 0, method |-> "", tickers |-> <<>>, reset |-> FALSE]

NoJob == [id |-> 0, job_type |-> "", status |-> "", error_message |-> "",
          result |-> [snapshot_ids |-> <<>>, edge_counts |-> <<>>]]

\* The state of the database a run saw when it was called.
Committed == [jobs |-> jobs, snapshots |-> snapshots, edges |-> edges]

NoSession ==
  [open |-> FALSE,
   snap_del |-> {},    \* ids of snapshots deleted
   snap_put |-> {},    \* snapshot rows inserted or updated
   edge_del |-> {},    \* ids of snapshots whose edges were deleted
   edge_ins |-> {}]    \* edge rows added

IdleRun ==
  [pc |-> "idle", args |-> NoArgs, job |-> NoJob,
   resolved_symbols |-> <<>>, feature_frame |-> EmptyFrame, idx |-> 0,
   window |-> <<>>, candidate_edges |-> {}, snapshot |-> 0,
   generated_snapshot_ids |-> <<>>, edge_counts_by_snapshot |-> <<>>,
   error |-> "", commits |-> 0,
   pre |-> [jobs |-> {}, snapshots |-> {}, edges |-> {}]]

\* No call of the lag scan.
NoScan == [pc |-> "idle", result |-> <<>>, out |-> NoResult]

NoBody ==
  [snapshot_id |-> 0, end_date |-> 0, window_size |-> 0, method |-> "",
   job_type |-> "None", nodes |-> <<>>, edges |-> {}]

\* No request is being answered.
NoResponse == [status |-> 0, p_threshold |-> 0, max_lag |-> 0, body |-> NoBody]

Init ==
  /\ jobs = {}
  /\ snapshots = {}
  /\ edges = {}
  /\ seq = [job |-> 1, snapshot |-> 1]
  /\ session = [r \in Slots |-> NoSession]
  /\ run = [r \in Slots |-> IdleRun]
  /\ started = 0
  /\ last = [ok |-> FALSE, args |-> NoArgs, content |-> {}]
  /\ features = FeaturesDaily
  /\ scan = NoScan
  /\ response = NoResponse

\* ---------------------------------------------------------- session helpers
PutIds(r) == { s.id : s \in session[r].snap_put }

\* What a query of run r sees: the committed rows overlaid with its own
\* uncommitted writes (READ COMMITTED).
VisibleSnapshots(r) ==
  { s \in snapshots : s.id \notin session[r].snap_del /\ s.id \notin PutIds(r) }
  \cup session[r].snap_put

VisibleEdges(r) ==
  { e \in edges : e.snapshot_id \notin session[r].edge_del
                  /\ e.snapshot_id \notin session[r].snap_del }
  \cup session[r].edge_ins

\* A row of snapshot sid, or of its edges, is locked by an open transaction
\* of another run.
LockedByOther(r, sid) ==
  \E q \in Slots \ {r} :
    /\ session[q].open
    /\ sid \in session[q].snap_del \cup PutIds(q) \cup session[q].edge_del

\* UniqueViolation of a table without the unique constraint.
UniqueViolation_None(r, as_of_date, method) == FALSE

\* UniqueConstraint("as_of_date", "method") of network_snapshots: a row of the
\* same key is visible to run r.
UniqueViolation(r, as_of_date, method) ==
  \E s \in VisibleSnapshots(r) : s.as_of_date = as_of_date /\ s.method = method

\* An insert of the key has to wait for the open transaction of another run
\* that wrote or deleted a row of the same key.
UniqueWait(r, as_of_date, method) ==
  \E q \in Slots \ {r} :
    /\ session[q].open
    /\ \E s \in session[q].snap_put \cup { c \in snapshots : c.id \in session[q].snap_del } :
         s.as_of_date = as_of_date /\ s.method = method

\* session.commit(): the writes of run r, its job row included, become the
\* committed state.
CommitDB(r, job) ==
  /\ jobs' = jobs \cup {job}
  /\ snapshots' = VisibleSnapshots(r)
  /\ edges' = VisibleEdges(r)
  /\ session' = [session EXCEPT ![r] = NoSession]

\* Leaving "async with AsyncSessionLocal()" without a commit: rollback.
Rollback(r) ==
  /\ session' = [session EXCEPT ![r] = NoSession]
  /\ UNCHANGED <<jobs, snapshots, edges>>

\* ------------------------------------------------------------- run_granger
\* The arguments run_granger is called with: every combination of a few
\* valid values, and calls with one invalid argument each.
Ranges == { <<1, MaxDate>>, <<1, 3>>, <<1, 2>>, <<2, 2>> }
WindowSizes == {2, 3}
MaxLags == {1}
PThresholds == {500000, 3000000}
Methods == {DEFAULT_METHOD}
TickerLists ==
  { <<"^N225", "^TOPX">>, <<"^N225", "USDJPY=X">>, DEFAULT_TICKERS,
    <<"^TOPX", "USDJPY=X">>, <<"^TOPX", "^TOPX">>, <<"^N225", "NOSUCH">> }

ValidArgSet ==
  { [start_date |-> rg[1], end_date |-> rg[2], window_size |-> ws, max_lag |-> ml,
     p_threshold |-> pt, method |-> m, tickers |-> tk, reset |-> rs] :
    rg \in Ranges, ws \in WindowSizes, ml \in MaxLags, pt \in PThresholds,
    m \in Methods, tk \in TickerLists, rs \in BOOLEAN }

BaseArgs ==
  [start_date |-> 1, end_date |-> MaxDate, window_size |-> 2, max_lag |-> 1,
   p_threshold |-> 500000, method |-> DEFAULT_METHOD,
   tickers |-> <<"^N225", "^TOPX">>, reset |-> FALSE]

InvalidArgSet ==
  UNION { { [BaseArgs EXCEPT !.reset = rs, !.start_date = 2, !.end_date = 1],
            [BaseArgs EXCEPT !.reset = rs, !.window_size = 1],
            [BaseArgs EXCEPT !.reset = rs, !.max_lag = 0],
            [BaseArgs EXCEPT !.reset = rs, !.p_threshold = -1],
            [BaseArgs EXCEPT !.reset = rs, !.p_threshold = POne + 1] } : rs \in BOOLEAN }

ArgSet == ValidArgSet \cup InvalidArgSet

\* ValidArgs without the check of max_lag.
ValidArgs_NoLagCheck(a) ==
  /\ ~(a.end_date < a.start_date)
  /\ ~(a.window_size < 2)
  /\ 0 <= a.p_threshold /\ a.p_threshold <= POne

\* lines 222-229: the parameter validation passes.
ValidArgs(a) ==
  /\ ~(a.end_date < a.start_date)
  /\ ~(a.window_size < 2)
  /\ ~(a.max_lag < 1)
  /\ 0 <= a.p_threshold /\ a.p_threshold <= POne

\* run_granger is called; the validation raises ValueError or passes.
Call(r, a) ==
  /\ run[r].pc = "idle"
  /\ started' = started + 1
  /\ run' = [run EXCEPT ![r] =
               [IdleRun EXCEPT !.args = a,
                               !.pre = Committed,
                               !.pc = IF ValidArgs(a) THEN "job" ELSE "raised",
                               !.error = IF ValidArgs(a) THEN "" ELSE "ValueError"]]
  /\ UNCHANGED <<jobs, snapshots, edges, seq, session, last, features, scan, response>>

\* CreateJob with the job created in status pending.
CreateJob_Pending(r) ==
  /\ run[r].pc = "job"
  /\ session' = [session EXCEPT ![r] = [NoSession EXCEPT !.open = TRUE]]
  /\ seq' = [seq EXCEPT !.job = @ + 1]
  /\ run' = [run EXCEPT ![r].job = [NoJob EXCEPT !.id = seq.job,
                                                 !.job_type = run[r].args.method,
                                                 !.status = "pending"],
                        ![r].pc = IF run[r].args.reset THEN "reset" ELSE "resolve"]
  /\ UNCHANGED <<jobs, snapshots, edges, started, last, features, scan, response>>

\* CreateJob with the job row committed instead of flushed.
CreateJob_Commit(r) ==
  /\ run[r].pc = "job"
  /\ session' = [session EXCEPT ![r] = [NoSession EXCEPT !.open = TRUE]]
  /\ seq' = [seq EXCEPT !.job = @ + 1]
  /\ jobs' = jobs \cup { [NoJob EXCEPT !.id = seq.job,
                                       !.job_type = run[r].args.method,
                                       !.status = "running"] }
  /\ run' = [run EXCEPT ![r].job = [NoJob EXCEPT !.id = seq.job,
                                                 !.job_type = run[r].args.method,
                                                 !.status = "running"],
                        ![r].pc = IF run[r].args.reset THEN "reset" ELSE "resolve"]
  /\ UNCHANGED <<snapshots, edges, started, last, features, scan, response>>

\* CreateJob followed by the reset of the scope whatever the reset flag.
CreateJob_AlwaysReset(r) ==
  /\ run[r].pc = "job"
  /\ session' = [session EXCEPT ![r] = [NoSession EXCEPT !.open = TRUE]]
  /\ seq' = [seq EXCEPT !.job = @ + 1]
  /\ run' = [run EXCEPT ![r].job = [NoJob EXCEPT !.id = seq.job,
                                                 !.job_type = run[r].args.method,
                                                 !.status = "running"],
                        ![r].pc = "reset"]
  /\ UNCHANGED <<jobs, snapshots, edges, started, last, features, scan, response>>

\* lines 231-250: the session opens, the job row is added and flushed.
CreateJob(r) ==
  /\ run[r].pc = "job"
  /\ session' = [session EXCEPT ![r] = [NoSession EXCEPT !.open = TRUE]]
  /\ seq' = [seq EXCEPT !.job = @ + 1]
  /\ run' = [run EXCEPT ![r].job = [NoJob EXCEPT !.id = seq.job,
                                                 !.job_type = run[r].args.method,
                                                 !.status = "running"],
                        ![r].pc = IF run[r].args.reset THEN "reset" ELSE "resolve"]
  /\ UNCHANGED <<jobs, snapshots, edges, started, last, features, scan, response>>

\* ScopeIds with the end of the date range excluded.
ScopeIds_ExclusiveEnd(r, start_date, end_date, window_size, method) ==
  { s.id : s \in { v \in VisibleSnapshots(r) :
                     /\ v.end_date >= start_date
                     /\ v.end_date < end_date
                     /\ v.window_size = window_size
                     /\ v.method = method } }

\* _reset_scope, the select: the ids of the visible snapshots of the scope.
ScopeIds(r, start_date, end_date, window_size, method) ==
  { s.id : s \in { v \in VisibleSnapshots(r) :
                     /\ v.end_date >= start_date
                     /\ v.end_date <= end_date
                     /\ v.window_size = window_size
                     /\ v.method = method } }

\* lines 252-259 and _reset_scope: the edges and the snapshots of the scope
\* are deleted in the session.
ResetScope(r) ==
  LET a == run[r].args
      snapshot_ids == ScopeIds(r, a.start_date, a.end_date, a.window_size, a.method)
  IN  /\ run[r].pc = "reset"
      /\ \A sid \in snapshot_ids : ~LockedByOther(r, sid)
      /\ session' = [session EXCEPT
                       ![r].edge_del = @ \cup snapshot_ids,
                       ![r].edge_ins = { e \in @ : e.snapshot_id \notin snapshot_ids },
                       ![r].snap_del = @ \cup (snapshot_ids \cap { c.id : c \in snapshots }),
                       ![r].snap_put = { s \in @ : s.id \notin snapshot_ids }]
      /\ run' = [run EXCEPT ![r].pc = "resolve"]
      /\ UNCHANGED <<jobs, snapshots, edges, seq, started, last, features, scan, response>>

\* FailJob that commits the failed job alone and drops the other writes of
\* the session.
FailJob_JobOnly(r, message) ==
  LET job == [run[r].job EXCEPT !.status = "failed", !.error_message = message]
  IN  /\ jobs' = jobs \cup {job}
      /\ session' = [session EXCEPT ![r] = NoSession]
      /\ UNCHANGED <<snapshots, edges>>
      /\ run' = [run EXCEPT ![r].job = job,
                            ![r].commits = @ + 1,
                            ![r].error = "RuntimeError",
                            ![r].pc = "raised"]
      /\ UNCHANGED <<seq, started, last, features, scan, response>>

\* A fatal condition of lines 262-291: the job is marked failed, committed,
\* and RuntimeError is raised.
FailJob(r, message) ==
  LET job == [run[r].job EXCEPT !.status = "failed", !.error_message = message]
  IN  /\ CommitDB(r, job)
      /\ run' = [run EXCEPT ![r].job = job,
                            ![r].commits = @ + 1,
                            ![r].error = "RuntimeError",
                            ![r].pc = "raised"]
      /\ UNCHANGED <<seq, started, last, features, scan, response>>

\* Resolve that goes on with a single resolved symbol.
Resolve_OneEnough(r) ==
  LET resolved_symbols == _resolve_symbols(run[r].args.tickers)
  IN  /\ run[r].pc = "resolve"
      /\ IF Len(resolved_symbols) < 1
         THEN FailJob(r, "At least 2 symbols are required after fallback resolution")
         ELSE /\ run' = [run EXCEPT ![r].resolved_symbols = resolved_symbols,
                                    ![r].pc = "load"]
              /\ UNCHANGED <<jobs, snapshots, edges, seq, session, started, last, features, scan, response>>

\* lines 261-266: symbol resolution.
Resolve(r) ==
  LET resolved_symbols == _resolve_symbols(run[r].args.tickers)
  IN  /\ run[r].pc = "resolve"
      /\ IF Len(resolved_symbols) < 2
         THEN FailJob(r, "At least 2 symbols are required after fallback resolution")
         ELSE /\ run' = [run EXCEPT ![r].resolved_symbols = resolved_symbols,
                                    ![r].pc = "load"]
              /\ UNCHANGED <<jobs, snapshots, edges, seq, session, started, last, features, scan, response>>

\* Load with the resolved entries counted in place of the aligned columns.
Load_CountResolved(r) ==
  LET a == run[r].args
      feature_frame == _load_feature_frame(run[r].resolved_symbols, a.start_date,
                                           a.end_date, DEFAULT_FEATURE_SET_VERSION)
  IN  /\ run[r].pc = "load"
      /\ IF FrameEmpty(feature_frame)
         THEN FailJob(r, "No features found for requested symbols/date range")
         ELSE IF Len(run[r].resolved_symbols) < 2
         THEN FailJob(r, "Not enough aligned symbol series after inner join")
         ELSE /\ run' = [run EXCEPT ![r].feature_frame = feature_frame,
                                    ![r].idx = 1,
                                    ![r].pc = "loop"]
              /\ UNCHANGED <<jobs, snapshots, edges, seq, session, started, last, features, scan, response>>

\* Load with a single aligned column accepted.
Load_OneColumn(r) ==
  LET a == run[r].args
      feature_frame == _load_feature_frame(run[r].resolved_symbols, a.start_date,
                                           a.end_date, DEFAULT_FEATURE_SET_VERSION)
  IN  /\ run[r].pc = "load"
      /\ IF FrameEmpty(feature_frame)
         THEN FailJob(r, "No features found for requested symbols/date range")
         ELSE IF Cardinality(feature_frame.columns) < 1
         THEN FailJob(r, "Not enough aligned symbol series after inner join")
         ELSE /\ run' = [run EXCEPT ![r].feature_frame = feature_frame,
                                    ![r].idx = 1,
                                    ![r].pc = "loop"]
              /\ UNCHANGED <<jobs, snapshots, edges, seq, session, started, last, features, scan, response>>

\* lines 268-291: the aligned feature frame is loaded and checked.
Load(r) ==
  LET a == run[r].args
      feature_frame == _load_feature_frame(run[r].resolved_symbols, a.start_date,
                                           a.end_date, DEFAULT_FEATURE_SET_VERSION)
  IN  /\ run[r].pc = "load"
      /\ IF FrameEmpty(feature_frame)
         THEN FailJob(r, "No features found for requested symbols/date range")
         ELSE IF Cardinality(feature_frame.columns) < 2
         THEN FailJob(r, "Not enough aligned symbol series after inner join")
         ELSE /\ run' = [run EXCEPT ![r].feature_frame = feature_frame,
                                    ![r].idx = 1,
                                    ![r].pc = "loop"]
              /\ UNCHANGED <<jobs, snapshots, edges, seq, session, started, last, features, scan, response>>

\* The aligned date at the loop position of run r.
LoopDate(r) == run[r].feature_frame.index[run[r].idx]

\* SkipsDate that asks for one more aligned date than the window holds.
SkipsDate_OffByOne(r) ==
  \/ LoopDate(r) < run[r].args.start_date
  \/ LoopDate(r) > run[r].args.end_date
  \/ run[r].idx <= run[r].args.window_size

\* lines 298-305: the loop skips this date.
SkipsDate(r) ==
  \/ LoopDate(r) < run[r].args.start_date
  \/ LoopDate(r) > run[r].args.end_date
  \/ run[r].idx < run[r].args.window_size

\* lines 297-301: a date without a full window is skipped.
LoopSkip(r) ==
  /\ run[r].pc = "loop"
  /\ run[r].idx <= Len(run[r].feature_frame.index)
  /\ SkipsDate(r)
  /\ run' = [run EXCEPT ![r].idx = @ + 1]
  /\ UNCHANGED <<jobs, snapshots, edges, seq, session, started, last, features, scan, response>>

\* lines 303-328: the window ending at this date and its candidate edges.
LoopWindow(r) ==
  LET a == run[r].args
      window == SubSeq(run[r].feature_frame.index,
                       run[r].idx + 1 - a.window_size, run[r].idx)
  IN  /\ run[r].pc = "loop"
      /\ run[r].idx <= Len(run[r].feature_frame.index)
      /\ ~SkipsDate(r)
      /\ run' = [run EXCEPT
                   ![r].window = window,
                   ![r].candidate_edges =
                      CandidateEdges(run[r].feature_frame.columns, window,
                                     a.max_lag, a.p_threshold),
                   ![r].pc = "lookup"]
      /\ UNCHANGED <<jobs, snapshots, edges, seq, session, started, last, features, scan, response>>

\* Lookup that also sees the uncommitted rows of the other sessions.
Lookup_ReadUncommitted(r) ==
  LET a == run[r].args
      found == { s \in VisibleSnapshots(r)
                       \cup UNION { session[q].snap_put : q \in Slots } :
                   /\ s.end_date = LoopDate(r)
                   /\ s.window_size = a.window_size
                   /\ s.method = a.method }
  IN  /\ run[r].pc = "lookup"
      /\ IF found = {}
         THEN run' = [run EXCEPT ![r].snapshot = 0, ![r].pc = "insert"]
         ELSE \E s \in found :
                run' = [run EXCEPT ![r].snapshot = s.id, ![r].pc = "update"]
      /\ UNCHANGED <<jobs, snapshots, edges, seq, session, started, last, features, scan, response>>

\* lines 330-336: the snapshot of (end_date, window_size, method) is looked up.
Lookup(r) ==
  LET a == run[r].args
      found == { s \in VisibleSnapshots(r) :
                   /\ s.end_date = LoopDate(r)
                   /\ s.window_size = a.window_size
                   /\ s.method = a.method }
  IN  /\ run[r].pc = "lookup"
      /\ IF found = {}
         THEN run' = [run EXCEPT ![r].snapshot = 0, ![r].pc = "insert"]
         ELSE \E s \in found :
                run' = [run EXCEPT ![r].snapshot = s.id, ![r].pc = "update"]
      /\ UNCHANGED <<jobs, snapshots, edges, seq, session, started, last, features, scan, response>>

\* lines 348-356 and 368-376: the provenance metadata of a snapshot.
MetadataJson(r) ==
  [tickers |-> run[r].args.tickers,
   resolved_tickers |->
     { <<run[r].resolved_symbols[i].requested_ticker,
         run[r].resolved_symbols[i].used_ticker>> :
       i \in 1..Len(run[r].resolved_symbols) },
   max_lag |-> run[r].args.max_lag,
   p_threshold |-> run[r].args.p_threshold,
   window_size |-> run[r].args.window_size]

\* lines 338-357: the new NetworkSnapshot.
NewSnapshot(r, id) ==
  [id |-> id,
   as_of_date |-> LoopDate(r),
   end_date |-> LoopDate(r),
   window_size |-> run[r].args.window_size,
   window_start |-> run[r].window[1],
   window_end |-> run[r].window[Len(run[r].window)],
   method |-> run[r].args.method,
   node_count |-> Cardinality(run[r].feature_frame.columns),
   edge_count |-> Cardinality(run[r].candidate_edges),
   job_id |-> run[r].job.id,
   metadata_json |-> MetadataJson(r)]

\* UpdatedSnapshot that leaves the job reference as it was.
UpdatedSnapshot_KeepJob(r, s) ==
  [s EXCEPT !.as_of_date = LoopDate(r),
            !.window_start = run[r].window[1],
            !.window_end = run[r].window[Len(run[r].window)],
            !.method = run[r].args.method,
            !.node_count = Cardinality(run[r].feature_frame.columns),
            !.edge_count = Cardinality(run[r].candidate_edges),
            !.metadata_json = MetadataJson(r)]

\* lines 361-376: the existing NetworkSnapshot with its fields overwritten.
UpdatedSnapshot(r, s) ==
  [s EXCEPT !.as_of_date = LoopDate(r),
            !.window_start = run[r].window[1],
            !.window_end = run[r].window[Len(run[r].window)],
            !.method = run[r].args.method,
            !.node_count = Cardinality(run[r].feature_frame.columns),
            !.edge_count = Cardinality(run[r].candidate_edges),
            !.job_id = run[r].job.id,
            !.metadata_json = MetadataJson(r)]

\* An exception leaves run_granger through the "async with": the session is
\* rolled back, nothing of the run is committed.
Raise(r, error) ==
  /\ Rollback(r)
  /\ run' = [run EXCEPT ![r].error = error, ![r].pc = "raised"]

\* lines 337-359: no snapshot was found; a new row is added and flushed.  The
\* flush raises IntegrityError when the row violates the unique constraint.
InsertSnapshot(r) ==
  /\ run[r].pc = "insert"
  /\ ~UniqueWait(r, LoopDate(r), run[r].args.method)
  /\ seq' = [seq EXCEPT !.snapshot = @ + 1]
  /\ IF UniqueViolation(r, LoopDate(r), run[r].args.method)
     THEN Raise(r, "IntegrityError")
     ELSE /\ session' = [session EXCEPT
                           ![r].snap_put = @ \cup {NewSnapshot(r, seq.snapshot)}]
          /\ run' = [run EXCEPT ![r].snapshot = seq.snapshot,
                                ![r].pc = "delete_edges"]
          /\ UNCHANGED <<jobs, snapshots, edges>>
  /\ UNCHANGED <<started, last, features, scan, response>>

\* lines 360-377: the snapshot found is updated in place and flushed.
UpdateSnapshot(r) ==
  /\ run[r].pc = "update"
  /\ ~LockedByOther(r, run[r].snapshot)
  /\ \E s \in VisibleSnapshots(r) :
       /\ s.id = run[r].snapshot
       /\ session' = [session EXCEPT
                        ![r].snap_put = { o \in @ : o.id # s.id }
                                        \cup {UpdatedSnapshot(r, s)}]
  /\ run' = [run EXCEPT ![r].pc = "delete_edges"]
  /\ UNCHANGED <<jobs, snapshots, edges, seq, started, last, features, scan, response>>

\* DeleteEdges with the delete committed at once.
DeleteEdges_Autocommit(r) ==
  /\ run[r].pc = "delete_edges"
  /\ ~LockedByOther(r, run[r].snapshot)
  /\ edges' = { e \in edges : e.snapshot_id # run[r].snapshot }
  /\ session' = [session EXCEPT
                   ![r].edge_ins = { e \in @ : e.snapshot_id # run[r].snapshot }]
  /\ run' = [run EXCEPT ![r].pc = "add_edges"]
  /\ UNCHANGED <<jobs, snapshots, seq, started, last, features, scan, response>>

\* DeleteEdges without the delete.
DeleteEdges_Skip(r) ==
  /\ run[r].pc = "delete_edges"
  /\ run' = [run EXCEPT ![r].pc = "add_edges"]
  /\ UNCHANGED <<jobs, snapshots, edges, seq, session, started, last, features, scan, response>>

\* line 379: the edges of the snapshot are deleted in the session.
DeleteEdges(r) ==
  /\ run[r].pc = "delete_edges"
  /\ ~LockedByOther(r, run[r].snapshot)
  /\ session' = [session EXCEPT
                   ![r].edge_del = @ \cup {run[r].snapshot},
                   ![r].edge_ins = { e \in @ : e.snapshot_id # run[r].snapshot }]
  /\ run' = [run EXCEPT ![r].pc = "add_edges"]
  /\ UNCHANGED <<jobs, snapshots, edges, seq, started, last, features, scan, response>>

\* AddEdges with the snapshot id put in front of the result list.
AddEdges_Prepend(r) ==
  /\ run[r].pc = "add_edges"
  /\ session' = [session EXCEPT
                   ![r].edge_ins = @ \cup EdgeRows(run[r].snapshot, run[r].candidate_edges)]
  /\ run' = [run EXCEPT
               ![r].generated_snapshot_ids = <<run[r].snapshot>> \o @,
               ![r].edge_counts_by_snapshot =
                  (run[r].snapshot :> Cardinality(run[r].candidate_edges)) @@ @,
               ![r].idx = @ + 1,
               ![r].pc = "loop"]
  /\ UNCHANGED <<jobs, snapshots, edges, seq, started, last, features, scan, response>>

\* lines 380-394: the candidate edges are added to the session, the snapshot
\* is recorded in the result lists, and the loop moves on.
AddEdges(r) ==
  /\ run[r].pc = "add_edges"
  /\ session' = [session EXCEPT
                   ![r].edge_ins = @ \cup EdgeRows(run[r].snapshot, run[r].candidate_edges)]
  /\ run' = [run EXCEPT
               ![r].generated_snapshot_ids = Append(@, run[r].snapshot),
               ![r].edge_counts_by_snapshot =
                  (run[r].snapshot :> Cardinality(run[r].candidate_edges)) @@ @,
               ![r].idx = @ + 1,
               ![r].pc = "loop"]
  /\ UNCHANGED <<jobs, snapshots, edges, seq, started, last, features, scan, response>>

\* Complete that marks the job failed when no window was emitted.
Complete_FailedWhenEmpty(r) ==
  LET job == [run[r].job EXCEPT
                !.status = IF run[r].generated_snapshot_ids = <<>>
                           THEN "failed" ELSE "completed",
                !.result = [snapshot_ids |-> run[r].generated_snapshot_ids,
                            edge_counts |-> run[r].edge_counts_by_snapshot]]
  IN  /\ run[r].pc = "loop"
      /\ run[r].idx > Len(run[r].feature_frame.index)
      /\ CommitDB(r, job)
      /\ run' = [run EXCEPT ![r].job = job, ![r].commits = @ + 1, ![r].pc = "done"]
      /\ UNCHANGED <<seq, started, last, features, scan, response>>

\* lines 396-405: after the last date the job is completed and committed.
Complete(r) ==
  LET job == [run[r].job EXCEPT
                !.status = "completed",
                !.result = [snapshot_ids |-> run[r].generated_snapshot_ids,
                            edge_counts |-> run[r].edge_counts_by_snapshot]]
  IN  /\ run[r].pc = "loop"
      /\ run[r].idx > Len(run[r].feature_frame.index)
      /\ CommitDB(r, job)
      /\ run' = [run EXCEPT ![r].job = job, ![r].commits = @ + 1, ![r].pc = "done"]
      /\ UNCHANGED <<seq, started, last, features, scan, response>>

\* The process is interrupted while the session is open: the transaction is
\* rolled back by the database.
Crash(r) ==
  /\ session[r].open
  /\ Rollback(r)
  /\ run' = [run EXCEPT ![r].error = "interrupted", ![r].pc = "crashed"]
  /\ UNCHANGED <<seq, started, last, features, scan, response>>

\* The snapshots of the committed state by key, each with its edges, without
\* the surrogate ids.
Content ==
  { [end_date |-> s.end_date, window_size |-> s.window_size, method |-> s.method,
     edges |-> { [source_symbol_id |-> e.source_symbol_id,
                  target_symbol_id |-> e.target_symbol_id,
                  p_value |-> e.p_value, lag |-> e.lag, weight |-> e.weight] :
                 e \in { x \in edges : x.snapshot_id = s.id } }] : s \in snapshots }

\* run_granger has returned or raised; its locals are gone.
Return(r) ==
  /\ run[r].pc \in {"done", "raised", "crashed"}
  /\ run' = [run EXCEPT ![r] = IdleRun]
  /\ UNCHANGED <<jobs, snapshots, edges, seq, session, started, last, features, scan, response>>

\* A call of the sequence of calls of Spec.
CallAny(r) == started < MaxRuns /\ \E a \in ArgSet : Call(r, a)

Step(r) ==
  \/ CallAny(r)
  \/ CreateJob(r)
  \/ ResetScope(r)
  \/ Resolve(r)
  \/ Load(r)
  \/ LoopSkip(r)
  \/ LoopWindow(r)
  \/ Lookup(r)
  \/ InsertSnapshot(r)
  \/ UpdateSnapshot(r)
  \/ DeleteEdges(r)
  \/ AddEdges(r)
  \/ Complete(r)
  \/ Crash(r)
  \/ Return(r)

\* One caller: the runs follow one another.
Next == Step(1)

Spec == Init /\ [][Next]_vars

\* ------------------------------------------------------ runs over one scope
\* Calls over one date range that differ in window size, threshold, tickers
\* and reset.
ScopeArgSet ==
  { a \in ValidArgSet :
      /\ a.start_date = 1 /\ a.end_date = MaxDate
      /\ a.tickers \in { <<"^N225", "^TOPX">>, <<"^N225", "USDJPY=X">> } }

\* run_granger has returned or raised; the call and the content it left are
\* remembered for the next call.
ReturnRecord(r) ==
  /\ run[r].pc \in {"done", "raised", "crashed"}
  /\ run' = [run EXCEPT ![r] = IdleRun]
  /\ last' = [ok |-> run[r].pc # "crashed", args |-> run[r].args, content |-> Content]
  /\ UNCHANGED <<jobs, snapshots, edges, seq, session, started, features, scan, response>>

\* A call of the sequence of calls of SpecRerun.
CallScope(r) == started < MaxScopeRuns /\ \E a \in ScopeArgSet : Call(r, a)

StepRerun(r) ==
  \/ CallScope(r)
  \/ CreateJob(r)
  \/ ResetScope(r)
  \/ Resolve(r)
  \/ Load(r)
  \/ LoopSkip(r)
  \/ LoopWindow(r)
  \/ Lookup(r)
  \/ InsertSnapshot(r)
  \/ UpdateSnapshot(r)
  \/ DeleteEdges(r)
  \/ AddEdges(r)
  \/ Complete(r)
  \/ Crash(r)
  \/ ReturnRecord(r)

NextRerun == StepRerun(1)

SpecRerun == Init /\ [][NextRerun]_vars

\* ---------------------------------------------------------- concurrent runs
\* lines 360-377 when the row found by the lookup has meanwhile been deleted
\* by a committed transaction: the UPDATE of the flush matches no row and the
\* ORM raises StaleDataError.
UpdateStale(r) ==
  /\ run[r].pc = "update"
  /\ ~LockedByOther(r, run[r].snapshot)
  /\ \A s \in VisibleSnapshots(r) : s.id # run[r].snapshot
  /\ Raise(r, "StaleDataError")
  /\ UNCHANGED <<seq, started, last, features, scan, response>>

\* Two processes call run_granger over the same dates 1..4 and tickers at the
\* same time, each with its own session; the calls differ in window size and
\* reset.
ConcArgSet ==
  { [BaseArgs EXCEPT !.end_date = 4, !.window_size = 2, !.reset = rs] : rs \in BOOLEAN }
  \cup { [BaseArgs EXCEPT !.end_date = 4, !.window_size = 3] }

CallConc(r) == started < MaxScopeRuns /\ \E a \in ConcArgSet : Call(r, a)

StepConc(r) ==
  \/ CallConc(r)
  \/ CreateJob(r)
  \/ ResetScope(r)
  \/ Resolve(r)
  \/ Load(r)
  \/ LoopSkip(r)
  \/ LoopWindow(r)
  \/ Lookup(r)
  \/ InsertSnapshot(r)
  \/ UpdateSnapshot(r)
  \/ UpdateStale(r)
  \/ DeleteEdges(r)
  \/ AddEdges(r)
  \/ Complete(r)
  \/ Crash(r)
  \/ Return(r)

NextConc == \E r \in Slots : StepConc(r)

SpecConc == Init /\ [][NextConc]_vars

\* ------------------------------------------- runs over other feature tables
\* The database holds one of the feature tables when the first run starts.
InitData ==
  /\ jobs = {}
  /\ snapshots = {}
  /\ edges = {}
  /\ seq = [job |-> 1, snapshot |-> 1]
  /\ session = [r \in Slots |-> NoSession]
  /\ run = [r \in Slots |-> IdleRun]
  /\ started = 0
  /\ last = [ok |-> FALSE, args |-> NoArgs, content |-> {}]
  /\ features \in FeatureTables
  /\ scan = NoScan
  /\ response = NoResponse

\* Calls over the whole calendar or its tail that differ in window size and
\* max_lag, and calls with a ticker without feature rows, with a ticker
\* without a symbols row, and with reset.
DataBaseArgs ==
  [start_date |-> 1, end_date |-> MaxDate + 2, window_size |-> 3, max_lag |-> 1,
   p_threshold |-> 500000, method |-> DEFAULT_METHOD,
   tickers |-> DEFAULT_TICKERS, reset |-> FALSE]

DataArgSet ==
  { [DataBaseArgs EXCEPT !.start_date = sd, !.window_size = ws, !.max_lag = ml] :
      sd \in {1, 3}, ws \in {2, 3, 5}, ml \in {1, 3} }
  \cup
  { [DataBaseArgs EXCEPT !.tickers = tk, !.window_size = ws] :
      tk \in { <<"^N225", "^TOPX">>, <<"^N225", "USDJPY=X", "EURJPY=X">>,
               <<"^N225", "USDJPY=X", "NOSUCH">>, <<"^N225", "NOSUCH">> },
      ws \in {2, 3} }
  \cup
  { [DataBaseArgs EXCEPT !.reset = TRUE, !.window_size = ws] : ws \in {2, 3} }

CallData(r) == started < MaxRuns /\ \E a \in DataArgSet : Call(r, a)

StepData(r) ==
  \/ CallData(r)
  \/ CreateJob(r)
  \/ ResetScope(r)
  \/ Resolve(r)
  \/ Load(r)
  \/ LoopSkip(r)
  \/ LoopWindow(r)
  \/ Lookup(r)
  \/ InsertSnapshot(r)
  \/ UpdateSnapshot(r)
  \/ DeleteEdges(r)
  \/ AddEdges(r)
  \/ Complete(r)
  \/ Crash(r)
  \/ Return(r)

NextData == StepData(1)

SpecData == InitData /\ [][NextData]_vars

\* ------------------------------------------------ the lag scan on its own
\* _evaluate_pair's scan over the lags applied to the p-values of up to
\* MaxLagLen lags, each a p-value in [0, 1] or NaN.
LagPValues == {0, 123456, 3000000, POne, NaN}

LagResults == UNION { [1..n -> LagPValues] : n \in 1..MaxLagLen }

InitLag ==
  /\ jobs = {}
  /\ snapshots = {}
  /\ edges = {}
  /\ seq = [job |-> 1, snapshot |-> 1]
  /\ session = [r \in Slots |-> NoSession]
  /\ run = [r \in Slots |-> IdleRun]
  /\ started = 0
  /\ last = [ok |-> FALSE, args |-> NoArgs, content |-> {}]
  /\ features = FeaturesDaily
  /\ scan \in { [pc |-> "called", result |-> res, out |-> NoResult] : res \in LagResults }
  /\ response = NoResponse

\* lines 94-105 run on the p-values of the call.
EvaluateLags ==
  /\ scan.pc = "called"
  /\ scan' = [scan EXCEPT !.pc = "returned", !.out = ScanLags(scan.result)]
  /\ UNCHANGED <<jobs, snapshots, edges, seq, session, run, started, last, features,
                 response>>

NextLag == EvaluateLags

SpecLag == InitLag /\ [][NextLag]_vars

\* ------------------------------------------------------------ the frames API
\* The tickers of table symbols in the order of Python's string comparison.
SortedTickers == <<"1306.T", "EURJPY=X", "USDJPY=X", "^N225">>

\* sorted(S) of a set of tickers.
sorted(S) == SelectSeq(SortedTickers, LAMBDA t : t \in S)

\* symbol_map.get(symbol_id): the ticker of the symbols row, or None.
symbol_map(symbol_id) ==
  IF \E sym \in Symbols : sym.id = symbol_id
  THEN (CHOOSE sym \in Symbols : sym.id = symbol_id).ticker
  ELSE "None"

\* FrameEdgeRows without the condition on the lag.
FrameEdgeRows_NoLagFilter(snapshot, p_threshold, max_lag) ==
  { e \in edges : /\ e.snapshot_id = snapshot.id
                  /\ e.p_value * 10 <= p_threshold }

\* The edge select of _build_frame_response.  p_threshold is the float of the
\* query in units of 1e-7, Decimal(str(p_threshold)) is that decimal exactly,
\* and the stored Numeric(18, 6) p_value is in units of 1e-6.
FrameEdgeRows(snapshot, p_threshold, max_lag) ==
  { e \in edges : /\ e.snapshot_id = snapshot.id
                  /\ e.p_value * 10 <= p_threshold
                  /\ e.lag <= max_lag }

\* _build_frame_response: the edges selected, with the tickers of their
\* endpoints, and the sorted tickers of those endpoints as nodes.  p_value and
\* weight of the response are floats, kept in units of 1e-6.
_build_frame_response(snapshot, job, p_threshold, max_lag) ==
  LET edge_rows == FrameEdgeRows(snapshot, p_threshold, max_lag)
      frame_edges ==
        { [src |-> symbol_map(e.source_symbol_id),
           dst |-> symbol_map(e.target_symbol_id),
           p_value |-> e.p_value,
           lag |-> e.lag,
           weight |-> DecimalOne - e.p_value] :
          e \in { x \in edge_rows : /\ symbol_map(x.source_symbol_id) # "None"
                                    /\ symbol_map(x.target_symbol_id) # "None" } }
      unique_symbols ==
        sorted({ item.src : item \in frame_edges } \cup { item.dst : item \in frame_edges })
  IN  [snapshot_id |-> snapshot.id,
       end_date |-> snapshot.end_date,
       window_size |-> snapshot.window_size,
       method |-> snapshot.method,
       job_type |-> IF job = NoJob THEN "None" ELSE job.job_type,
       nodes |-> unique_symbols,
       edges |-> frame_edges]

\* The outer join of a snapshot with its job.
JobOf(snapshot) ==
  IF \E j \in jobs : j.id = snapshot.job_id
  THEN CHOOSE j \in jobs : j.id = snapshot.job_id
  ELSE NoJob

\* _fetch_frames, the snapshot select; method and job_type may be None.
FrameRows(end_date_from, end_date_to, window_size, method, job_type) ==
  { sn \in snapshots :
      /\ sn.end_date >= end_date_from
      /\ sn.end_date <= end_date_to
      /\ sn.window_size = window_size
      /\ method # "None" => sn.method = method
      /\ job_type # "None" => (JobOf(sn) # NoJob /\ JobOf(sn).job_type = job_type) }

\* The first row in the order end_date asc, id asc.
FirstRow(rows) ==
  CHOOSE sn \in rows :
    \A t \in rows : \/ sn.end_date < t.end_date
                    \/ sn.end_date = t.end_date /\ sn.id <= t.id

\* A request is served between the calls of run_granger: it reads committed
\* rows only, and the committed state during a call is the one before the
\* call or the one its commit leaves.
Serving == response = NoResponse /\ \A r \in Slots : run[r].pc = "idle"

\* GET /frames.
get_frame(end_date, window_size, p_threshold, max_lag, method, job_type) ==
  LET rows == FrameRows(end_date, end_date, window_size, method, job_type)
  IN  /\ Serving
      /\ response' =
           IF rows = {}
           THEN [NoResponse EXCEPT !.status = 404, !.p_threshold = p_threshold,
                                   !.max_lag = max_lag]
           ELSE [status |-> 200, p_threshold |-> p_threshold, max_lag |-> max_lag,
                 body |-> _build_frame_response(FirstRow(rows), JobOf(FirstRow(rows)),
                                                p_threshold, max_lag)]
      /\ UNCHANGED <<jobs, snapshots, edges, seq, session, run, started, last, features,
                     scan>>

\* GET /frames/{snapshot_id}.
get_frame_by_snapshot_id(snapshot_id, p_threshold, max_lag) ==
  LET row == { sn \in snapshots : sn.id = snapshot_id }
  IN  /\ Serving
      /\ response' =
           IF row = {}
           THEN [NoResponse EXCEPT !.status = 404, !.p_threshold = p_threshold,
                                   !.max_lag = max_lag]
           ELSE [status |-> 200, p_threshold |-> p_threshold, max_lag |-> max_lag,
                 body |-> _build_frame_response(FirstRow(row), JobOf(FirstRow(row)),
                                                p_threshold, max_lag)]
      /\ UNCHANGED <<jobs, snapshots, edges, seq, session, run, started, last, features,
                     scan>>

\* The response has been returned to the client.
SendResponse ==
  /\ response # NoResponse
  /\ response' = NoResponse
  /\ UNCHANGED <<jobs, snapshots, edges, seq, session, run, started, last, features,
                 scan>>

\* The queries: thresholds of 0, 0.012346, 0.05 and 1, lags of 0, 1 and 5.
ApiPThresholds == {0, 123460, 500000, POne}
ApiMaxLags == {0, 1, 5}
ApiWindowSizes == {2, 3, 5}

GetFrame ==
  \E end_date \in LongDates, window_size \in ApiWindowSizes,
     p_threshold \in ApiPThresholds, max_lag \in ApiMaxLags,
     method \in {"None", DEFAULT_METHOD}, job_type \in {"None", DEFAULT_METHOD} :
    get_frame(end_date, window_size, p_threshold, max_lag, method, job_type)

GetFrameBySnapshotId ==
  \E snapshot_id \in 1..seq.snapshot,
     p_threshold \in ApiPThresholds, max_lag \in ApiMaxLags :
    get_frame_by_snapshot_id(snapshot_id, p_threshold, max_lag)

\* The runs that fill the tables the API reads: calls over the whole calendar
\* that differ in window size, max_lag and reset.
ApiArgSet ==
  { [DataBaseArgs EXCEPT !.window_size = ws, !.max_lag = ml, !.reset = rs] :
      ws \in {3, 5}, ml \in {1, 3}, rs \in BOOLEAN }

CallApi(r) == started < MaxRuns /\ \E a \in ApiArgSet : Call(r, a)

StepApi(r) ==
  \/ CallApi(r)
  \/ CreateJob(r)
  \/ ResetScope(r)
  \/ Resolve(r)
  \/ Load(r)
  \/ LoopSkip(r)
  \/ LoopWindow(r)
  \/ Lookup(r)
  \/ InsertSnapshot(r)
  \/ UpdateSnapshot(r)
  \/ DeleteEdges(r)
  \/ AddEdges(r)
  \/ Complete(r)
  \/ Crash(r)
  \/ Return(r)

RunStep == response = NoResponse /\ StepApi(1)

NextApi ==
  \/ RunStep
  \/ GetFrame
  \/ GetFrameBySnapshotId
  \/ SendResponse

SpecApi == InitData /\ [][NextApi]_vars

\* =================================================================== claims
EdgesOf(E, sid) == { e \in E : e.snapshot_id = sid }

InScope(s, a) ==
  /\ s.end_date >= a.start_date
  /\ s.end_date <= a.end_date
  /\ s.window_size = a.window_size
  /\ s.method = a.method

\* The job row of run r in the committed state.
CommittedJob(r) == { j \in jobs : j.id = run[r].job.id }

\* The window of run r that ends at end_date, and the edge rows of the
\* candidate edges of that window.
WindowAt(r, end_date) ==
  LET index == run[r].feature_frame.index
      i == CHOOSE k \in 1..Len(index) : index[k] = end_date
  IN  SubSeq(index, i + 1 - run[r].args.window_size, i)

ComputedEdges(r, s) ==
  EdgeRows(s.id, CandidateEdges(run[r].feature_frame.columns, WindowAt(r, s.end_date),
                                run[r].args.max_lag, run[r].args.p_threshold))

\* The three fatal conditions of a run, from its arguments alone.
FewerThanTwoResolved(a) == Len(_resolve_symbols(a.tickers)) < 2

FrameOf(a) ==
  _load_feature_frame(_resolve_symbols(a.tickers), a.start_date, a.end_date,
                      DEFAULT_FEATURE_SET_VERSION)

Fatal(a) ==
  \/ FewerThanTwoResolved(a)
  \/ FrameEmpty(FrameOf(a))
  \/ Cardinality(FrameOf(a).columns) < 2

\* C1: whenever run_granger has raised after its job was created, the job is
\* committed with status failed (no error path leaves it absent or running).
C1_ErrorLeavesFailedJob ==
  \A r \in Slots :
    (run[r].pc = "raised" /\ run[r].job.id # 0)
      => \E j \in CommittedJob(r) : j.status = "failed"

\* C2: a job is created with status running; its status changes at most once,
\* from running to completed or failed; a committed job row is terminal and
\* never changes or disappears.
C2_StatusLifecycle ==
  [][ /\ \A r \in Slots :
           /\ (run[r].job.id = 0 /\ run'[r].job.id # 0)
                => run'[r].job.status = "running"
           /\ (run[r].job.id # 0 /\ run'[r].job.id = run[r].job.id
               /\ run'[r].job.status # run[r].job.status)
                => /\ run[r].job.status = "running"
                   /\ run'[r].job.status \in {"completed", "failed"}
      /\ \A j \in jobs : j \in jobs'
      /\ \A j \in jobs' : j.status \in {"completed", "failed"} ]_vars

C2_Witness ==
  /\ \E j \in jobs : j.status = "completed"
  /\ \E j \in jobs : j.status = "failed"

\* C3: a run that has ended has its job failed exactly when fewer than two
\* symbols resolve, the aligned frame is empty, or fewer than two columns
\* remain; then the job is committed failed with an error message when the
\* error is raised, no window was processed and no snapshot is owned by the job.
C3_FailedExactlyOnFatal ==
  \A r \in Slots :
    (run[r].pc \in {"done", "raised"} /\ run[r].job.id # 0) =>
      /\ (run[r].job.status = "failed") <=> Fatal(run[r].args)
      /\ Fatal(run[r].args) =>
           /\ run[r].pc = "raised"
           /\ \E j \in CommittedJob(r) : j.status = "failed" /\ j.error_message # ""
           /\ run[r].generated_snapshot_ids = <<>>
           /\ \A s \in snapshots : s.job_id # run[r].job.id

C3_Witness ==
  \E r \in Slots :
    /\ run[r].pc = "raised"
    /\ ~FewerThanTwoResolved(run[r].args)
    /\ ~FrameEmpty(FrameOf(run[r].args))
    /\ \E j \in CommittedJob(r) : j.status = "failed"

\* The parameters C4 names: end_date < start_date, window_size < 2,
\* max_lag < 1 or p_threshold outside [0, 1].
InvalidParams(a) ==
  \/ a.end_date < a.start_date
  \/ a.window_size < 2
  \/ a.max_lag < 1
  \/ a.p_threshold < 0
  \/ a.p_threshold > POne

\* C4: a call with an invalid argument raises ValueError with no job created,
\* no session opened and the committed state as it was, also with reset.
C4_InvalidArgsNoEffect ==
  \A r \in Slots :
    (run[r].pc # "idle" /\ InvalidParams(run[r].args)) =>
      /\ run[r].pc = "raised"
      /\ run[r].error = "ValueError"
      /\ run[r].job.id = 0
      /\ run[r].commits = 0
      /\ ~session[r].open
      /\ Committed = run[r].pre

C4_Witness ==
  \E r \in Slots :
    /\ run[r].pc = "raised"
    /\ run[r].error = "ValueError"
    /\ run[r].args.reset
    /\ run[r].args.window_size >= 2
    /\ \E s \in snapshots : InScope(s, run[r].args)

\* C5: the committed state holds at most one snapshot per
\* (end_date, window_size, method).
C5_OneSnapshotPerKey ==
  \A s1, s2 \in snapshots :
    (s1.end_date = s2.end_date /\ s1.window_size = s2.window_size
     /\ s1.method = s2.method) => s1 = s2

C5_Witness ==
  /\ \E r \in Slots : run[r].error = "IntegrityError"
  /\ \E s \in snapshots : s.id = 1 /\ s.job_id # 1

\* C6: in every step the committed edges of a snapshot stay as they were or
\* become, at the commit of a run, exactly the edges that run computed for it;
\* every committed snapshot has edge_count equal to the number of its edges.
C6_EdgeSetAtomic ==
  [][ /\ \A s \in snapshots : \A t \in snapshots' :
           t.id = s.id =>
             \/ EdgesOf(edges', s.id) = EdgesOf(edges, s.id)
             \/ \E r \in Slots :
                  /\ run'[r].commits = run[r].commits + 1
                  /\ s.id \in SeqRange(run[r].generated_snapshot_ids)
                  /\ EdgesOf(edges', s.id) = ComputedEdges(r, t)
      /\ \A t \in snapshots' : t.edge_count = Cardinality(EdgesOf(edges', t.id)) ]_vars

C6_Witness ==
  \E r \in Slots :
    /\ run[r].pc = "done"
    /\ \E s \in run[r].pre.snapshots :
         /\ s.id \in SeqRange(run[r].generated_snapshot_ids)
         /\ EdgesOf(run[r].pre.edges, s.id) # {}
         /\ EdgesOf(edges, s.id) # {}
         /\ EdgesOf(edges, s.id) # EdgesOf(run[r].pre.edges, s.id)

\* C7: once a run has processed a window, the edges of that window's snapshot
\* are exactly the edge rows of the candidate edges of the window, and its
\* edge_count is their number, in the session and after the commit.
C7_EdgesFullyReplaced ==
  \A r \in Slots :
    (session[r].open \/ run[r].pc = "done") =>
      \A s \in VisibleSnapshots(r) :
        s.id \in SeqRange(run[r].generated_snapshot_ids) =>
          /\ EdgesOf(VisibleEdges(r), s.id) = ComputedEdges(r, s)
          /\ s.edge_count = Cardinality(ComputedEdges(r, s))

C7_Witness ==
  \E r \in Slots :
    /\ run[r].pc = "done"
    /\ \E e \in run[r].pre.edges :
         /\ e.snapshot_id \in SeqRange(run[r].generated_snapshot_ids)
         /\ e \notin edges
         /\ EdgesOf(edges, e.snapshot_id) # {}

C9_ResetClearsScope ==
  \A r \in Slots :
    run[r].args.reset =>
      /\ run[r].pc \in {"job", "reset"} => session[r].snap_put = {}
      /\ session[r].open /\ run[r].pc \notin {"job", "reset"} =>
           \A s \in run[r].pre.snapshots :
             InScope(s, run[r].args) =>
               /\ \A v \in VisibleSnapshots(r) : v.id # s.id
               /\ EdgesOf(VisibleEdges(r), s.id) = {}
      /\ run[r].pc = "done" =>
           \A s \in snapshots :
             InScope(s, run[r].args) =>
               /\ s.job_id = run[r].job.id
               /\ \A o \in run[r].pre.snapshots : o.id # s.id
               /\ \A o \in run[r].pre.snapshots : EdgesOf(edges, o.id) = {} \/ ~InScope(o, run[r].args)

C9_Witness ==
  \E r \in Slots :
    /\ run[r].pc = "done" /\ run[r].args.reset
    /\ \E o \in run[r].pre.snapshots :
         InScope(o, run[r].args) /\ EdgesOf(run[r].pre.edges, o.id) # {}
    /\ \E s \in snapshots : InScope(s, run[r].args)

\* C10: a run commits at most once, and as long as it has not committed,
\* also when it is interrupted, the committed state is the state before the
\* run, without a job row of the run.
C10_SingleCommit ==
  \A r \in Slots :
    /\ run[r].commits <= 1
    /\ (run[r].pc # "idle" /\ run[r].commits = 0) =>
         /\ Committed = run[r].pre
         /\ CommittedJob(r) = {}

C10_Witness ==
  \E r \in Slots :
    /\ run[r].pc = "crashed"
    /\ run[r].args.reset
    /\ run[r].generated_snapshot_ids # <<>>
    /\ \E s \in snapshots : InScope(s, run[r].args)

\* The end dates of the windows run r has to process: the aligned dates within
\* [start_date, end_date] that have window_size aligned dates up to them.
ProcessedDates(r) ==
  LET index == run[r].feature_frame.index
  IN  { index[i] : i \in { k \in 1..Len(index) :
                             /\ index[k] >= run[r].args.start_date
                             /\ index[k] <= run[r].args.end_date
                             /\ k >= run[r].args.window_size } }

\* C11: the result of a completed job lists exactly the ids of the snapshots
\* the run wrote, one per processed window in ascending end-date order, its
\* edge-count map gives each of them the number of its persisted edges, and
\* the job is completed only after the last window.
C11_ResultListsSnapshots ==
  \A r \in Slots :
    /\ run[r].job.status = "completed" =>
         run[r].idx > Len(run[r].feature_frame.index)
    /\ run[r].pc = "done" =>
         \E j \in CommittedJob(r) :
           LET ids == j.result.snapshot_ids
               written == { s \in snapshots : s.job_id = j.id }
           IN  /\ j.status = "completed"
               /\ SeqRange(ids) = { s.id : s \in written }
               /\ Len(ids) = Cardinality(ProcessedDates(r))
               /\ { s.end_date : s \in written } = ProcessedDates(r)
               /\ \A a, b \in 1..Len(ids) :
                    a < b => \E sa, sb \in written :
                               /\ sa.id = ids[a] /\ sb.id = ids[b]
                               /\ sa.end_date < sb.end_date
               /\ DOMAIN j.result.edge_counts = SeqRange(ids)
               /\ \A sid \in SeqRange(ids) :
                    j.result.edge_counts[sid] = Cardinality(EdgesOf(edges, sid))

C11_Witness ==
  \E r \in Slots :
    /\ run[r].pc = "done"
    /\ \E sid, other \in SeqRange(run[r].job.result.snapshot_ids) :
         /\ run[r].job.result.edge_counts[sid] > run[r].job.result.edge_counts[other]
         /\ run[r].job.result.edge_counts[other] > 0
         /\ \E s \in run[r].pre.snapshots : s.id = sid

\* The snapshot row that owns edge e among the snapshot rows S.
OwnerOf(S, e) == { sn \in S : sn.id = e.snapshot_id }

\* C12: every persisted edge has weight + p_value = 1 at six decimal places,
\* a p_value in [0, 1] and a lag in [1, max_lag] of the run that wrote it.
C12_EdgeValueRanges ==
  \A e \in edges :
    /\ e.weight + e.p_value = DecimalOne
    /\ 0 <= e.p_value /\ e.p_value <= DecimalOne
    /\ 1 <= e.lag
    /\ \A sn \in OwnerOf(snapshots, e) : e.lag <= sn.metadata_json.max_lag

C12_Witness ==
  \E e \in edges :
    /\ e.lag = 3
    /\ e.p_value > 0
    /\ OwnerOf(snapshots, e) # {}
    /\ \E o \in edges : o.lag = 1 /\ \E sn \in OwnerOf(snapshots, o) : sn.metadata_json.max_lag = 3

\* C13: no persisted edge has source = target, and a snapshot has at most one
\* edge per ordered pair (source, target).
C13_NoSelfLoopOnePerPair ==
  /\ \A e \in edges : e.source_symbol_id # e.target_symbol_id
  /\ \A e1, e2 \in edges :
       (/\ e1.snapshot_id = e2.snapshot_id
        /\ e1.source_symbol_id = e2.source_symbol_id
        /\ e1.target_symbol_id = e2.target_symbol_id) => e1 = e2

C13_Witness ==
  \E e1, e2 \in edges :
    /\ e1.snapshot_id = e2.snapshot_id
    /\ e1.source_symbol_id = e2.target_symbol_id
    /\ e1.target_symbol_id = e2.source_symbol_id
    /\ Cardinality(EdgesOf(edges, e1.snapshot_id)) >= 3
    /\ \E j \in jobs : j.status = "completed" /\ Len(j.result.snapshot_ids) >= 2

\* The lags tested for a window of run r, the p-values the test reports for a
\* pair, and the lags with a p-value that is a number.
TestedLags(r) == 1..Min2(run[r].args.max_lag, Len(run[r].window) - 2)

PValues(r, src, dst) ==
  grangercausalitytests(src, dst, run[r].window,
                        Min2(run[r].args.max_lag, Len(run[r].window) - 2)).p

NumberLags(r, src, dst) == { l \in TestedLags(r) : PValues(r, src, dst)[l] # NaN }

\* Run r has just written the edges of the snapshot of run[r].window.
WindowWritten(r) ==
  /\ run[r].pc \in {"loop", "done"}
  /\ run[r].snapshot # 0
  /\ run[r].window # <<>>

\* C14: an edge of a window is persisted for an ordered pair only if the
\* pair's minimum p-value over the tested lags is <= p_threshold; its lag is a
\* tested lag >= 1 that attains the minimum, and its p_value is that minimum
\* (in the open session after the window was written, and in the committed
\* state for the last window of a completed run).
C14_EdgeOnlyForMinPBelowThreshold ==
  \A r \in Slots :
    WindowWritten(r) =>
      \A e \in EdgesOf(VisibleEdges(r), run[r].snapshot) :
        LET p == PValues(r, e.source_symbol_id, e.target_symbol_id)
            lags == NumberLags(r, e.source_symbol_id, e.target_symbol_id)
        IN  /\ e.lag >= 1
            /\ e.lag \in lags
            /\ \A l \in lags : p[e.lag] <= p[l]
            /\ p[e.lag] <= run[r].args.p_threshold
            /\ e.p_value = Round6(p[e.lag])

C14_Witness ==
  \E r \in Slots :
    /\ WindowWritten(r)
    /\ run[r].pc = "done"
    /\ Len(run[r].window) = 5
    /\ \E e \in EdgesOf(VisibleEdges(r), run[r].snapshot) :
         /\ e.lag = 2
         /\ PValues(r, e.source_symbol_id, e.target_symbol_id)[1] # NaN
         /\ PValues(r, e.source_symbol_id, e.target_symbol_id)[1] <= run[r].args.p_threshold
    /\ \E src, dst \in run[r].feature_frame.columns :
         /\ src # dst
         /\ NumberLags(r, src, dst) # {}
         /\ \A l \in NumberLags(r, src, dst) : PValues(r, src, dst)[l] > run[r].args.p_threshold
         /\ \A e \in EdgesOf(VisibleEdges(r), run[r].snapshot) :
              ~(e.source_symbol_id = src /\ e.target_symbol_id = dst)

\* C15: a completed run wrote a snapshot for end date d iff d is a date of the
\* aligned matrix the run loaded, within [start_date, end_date], at a position
\* with window_size aligned dates up to it; the snapshot's window is these
\* window_size consecutive aligned dates.  Every window evaluated has
\* window_size rows.
C15_WindowPerAlignedPosition ==
  \A r \in Slots :
    LET index == run[r].feature_frame.index
        ws == run[r].args.window_size
    IN  /\ run[r].window # <<>> =>
             /\ Len(run[r].window) = ws
             /\ \E k \in ws..Len(index) : run[r].window = SubSeq(index, k + 1 - ws, k)
        /\ run[r].pc = "done" =>
             LET written == { s \in snapshots : s.job_id = run[r].job.id }
             IN  /\ \A k \in 1..Len(index) :
                      (\E s \in written : s.end_date = index[k])
                        <=> (/\ index[k] >= run[r].args.start_date
                             /\ index[k] <= run[r].args.end_date
                             /\ k >= ws)
                 /\ \A s \in written :
                      \E k \in ws..Len(index) :
                        /\ s.end_date = index[k]
                        /\ s.window_end = index[k]
                        /\ s.window_start = index[k + 1 - ws]
                        /\ s.window_size = ws

C15_Witness ==
  \E r \in Slots :
    /\ run[r].pc = "done"
    /\ run[r].args.window_size = 3
    /\ \E s \in snapshots :
         /\ s.job_id = run[r].job.id
         /\ s.end_date - s.window_start > 2
    /\ \E s \in run[r].pre.snapshots : s.window_size = 3

\* The dates of features_daily on which every one of the symbols has a usable
\* value, whatever the requested range.
AlignedDates(symbol_ids) ==
  { d \in { f.date : f \in features } :
      \A sid \in symbol_ids :
        \E f \in features :
          /\ f.symbol_id = sid /\ f.date = d
          /\ f.feature_set_version = DEFAULT_FEATURE_SET_VERSION
          /\ _to_float(f.value) # "None" }

ResolvedIds(r) ==
  { run[r].resolved_symbols[i].symbol_id : i \in 1..Len(run[r].resolved_symbols) }

\* C16: when every instrument of a completed run has values on at least
\* window_size - 1 aligned dates before start_date, the first aligned date
\* within [start_date, end_date] has a snapshot of this run whose window_start
\* lies before start_date.
C16_PreStartRowsFillWindow ==
  \A r \in Slots :
    LET a == run[r].args
        aligned == AlignedDates(ResolvedIds(r))
        before == { d \in aligned : d < a.start_date }
        inside == { d \in aligned : d >= a.start_date /\ d <= a.end_date }
    IN  (/\ run[r].pc = "done"
         /\ Cardinality(before) >= a.window_size - 1
         /\ inside # {})
          => \E s \in snapshots :
               /\ s.job_id = run[r].job.id
               /\ \A d \in inside : s.end_date <= d
               /\ s.window_start < a.start_date

\* C17: with window_size = 2 no pair yields a candidate edge: every snapshot
\* of window size 2, in a session and in the committed state, has no edge and
\* edge_count 0, and a completed run has still written one snapshot per
\* window.
C17_WindowSizeTwoNoEdges ==
  /\ \A s \in snapshots :
       s.window_size = 2 => (s.edge_count = 0 /\ EdgesOf(edges, s.id) = {})
  /\ \A r \in Slots :
       run[r].args.window_size = 2 =>
         /\ run[r].candidate_edges = {}
         /\ \A s \in session[r].snap_put :
              s.edge_count = 0 /\ EdgesOf(VisibleEdges(r), s.id) = {}
         /\ run[r].pc = "done" =>
              \A d \in ProcessedDates(r) :
                \E s \in snapshots : /\ s.job_id = run[r].job.id
                                     /\ s.end_date = d
                                     /\ s.window_size = 2

C17_Witness ==
  \E r \in Slots :
    /\ run[r].pc = "done"
    /\ run[r].args.window_size = 2
    /\ run[r].args.max_lag = 3
    /\ Cardinality(run[r].feature_frame.columns) = 3
    /\ Cardinality({ s \in snapshots : s.job_id = run[r].job.id /\ s.edge_count = 0 }) >= 3

\* Symbol sid has a usable value of the feature on date d.
HasValue(sid, d) ==
  \E f \in features :
    /\ f.symbol_id = sid /\ f.date = d
    /\ f.feature_set_version = DEFAULT_FEATURE_SET_VERSION
    /\ _to_float(f.value) # "None"

\* C18: every date of the aligned matrix of a run, and every date of every
\* window it evaluates, has a feature value for every resolved instrument.
C18_AlignedDatesHaveAllInstruments ==
  \A r \in Slots :
    /\ \A i \in 1..Len(run[r].feature_frame.index) :
         \A sid \in ResolvedIds(r) : HasValue(sid, run[r].feature_frame.index[i])
    /\ \A i \in 1..Len(run[r].window) :
         \A sid \in ResolvedIds(r) : HasValue(sid, run[r].window[i])

\* The candidates of a requested ticker in the order they are tried, and a
\* candidate with an available feature series.
Candidates(ticker) == <<ticker>> \o FALLBACK_TICKERS(ticker)

HasSeries(candidate) ==
  \E sym \in Symbols :
    /\ sym.ticker = candidate
    /\ \E f \in features : HasValue(sym.id, f.date)

\* C19: every resolved ticker of a run was resolved to the first of its
\* candidates that has an available feature series, a ticker none of whose
\* candidates has one is unresolved, and the provenance metadata of the run's
\* snapshots names the picked candidates.
C19_ResolverPicksFirstWithSeries ==
  \A r \in Slots :
    LET resolved == run[r].resolved_symbols
    IN  resolved # <<>> =>
          /\ \A i \in 1..Len(resolved) :
               \E k \in 1..Len(Candidates(resolved[i].requested_ticker)) :
                 /\ Candidates(resolved[i].requested_ticker)[k] = resolved[i].used_ticker
                 /\ HasSeries(resolved[i].used_ticker)
                 /\ \A h \in 1..(k - 1) :
                      ~HasSeries(Candidates(resolved[i].requested_ticker)[h])
          /\ \A t \in 1..Len(run[r].args.tickers) :
               (\A k \in 1..Len(Candidates(run[r].args.tickers[t])) :
                  ~HasSeries(Candidates(run[r].args.tickers[t])[k]))
                 => \A i \in 1..Len(resolved) :
                      resolved[i].requested_ticker # run[r].args.tickers[t]
          /\ \A sn \in session[r].snap_put :
               sn.metadata_json.resolved_tickers =
                 { <<resolved[i].requested_ticker, resolved[i].used_ticker>> :
                     i \in 1..Len(resolved) }

\* A requested ticker resolves: it or one of its fallbacks has a symbols row.
Resolvable(ticker) ==
  \E k \in 1..Len(Candidates(ticker)) :
    \E sym \in Symbols : sym.ticker = Candidates(ticker)[k]

\* The run of r has ended with its job failed on the resolution, and has
\* created no snapshot.
FailedOnResolution(r) ==
  /\ \E j \in CommittedJob(r) :
       /\ j.status = "failed"
       /\ j.error_message = "At least 2 symbols are required after fallback resolution"
  /\ \A s \in snapshots : s.job_id # run[r].job.id
  /\ snapshots \subseteq run[r].pre.snapshots

\* C20 as stated: a run whose ticker list holds a ticker that does not resolve
\* ends with its job failed on the resolution and no snapshot created.
C20_UnresolvedTickerFailsJob ==
  \A r \in Slots :
    (/\ run[r].pc \in {"done", "raised"}
     /\ run[r].job.id # 0
     /\ \E t \in 1..Len(run[r].args.tickers) : ~Resolvable(run[r].args.tickers[t]))
      => FailedOnResolution(r)

\* C20 amended: a run whose ticker list holds a ticker that does not resolve,
\* and fewer than two tickers that do, ends with RuntimeError, its job failed
\* on the resolution and no snapshot created.
C20_FewerThanTwoResolvedFailsJob ==
  \A r \in Slots :
    (/\ run[r].pc \in {"done", "raised"}
     /\ run[r].job.id # 0
     /\ \E t \in 1..Len(run[r].args.tickers) : ~Resolvable(run[r].args.tickers[t])
     /\ Cardinality({ t \in 1..Len(run[r].args.tickers) :
                        Resolvable(run[r].args.tickers[t]) }) < 2)
      => /\ run[r].pc = "raised"
         /\ run[r].error = "RuntimeError"
         /\ FailedOnResolution(r)

C20_Witness ==
  \E r \in Slots :
    /\ run[r].pc = "raised"
    /\ run[r].args.tickers = <<"^N225", "NOSUCH">>
    /\ FailedOnResolution(r)
    /\ run[r].pre.snapshots # {}

\* The test of the pair raises on the window of run r; the test of the pair
\* passes: it does not raise and some tested lag has a p-value below 1 that is
\* <= p_threshold.
PairRaised(r, src, dst) ==
  /\ TestedLags(r) # {}
  /\ grangercausalitytests(src, dst, run[r].window,
                           Min2(run[r].args.max_lag, Len(run[r].window) - 2)).raised

PairPasses(r, src, dst) ==
  /\ TestedLags(r) # {}
  /\ ~PairRaised(r, src, dst)
  /\ \E l \in NumberLags(r, src, dst) :
       /\ PValues(r, src, dst)[l] < POne
       /\ PValues(r, src, dst)[l] <= run[r].args.p_threshold

\* C21: a pair whose test fails gets no edge, and every other ordered pair of
\* the window is still evaluated: the window's snapshot is written with an
\* edge for exactly the pairs that passed, and a run that got through its
\* windows is completed.
C21_PairFailureIsolated ==
  \A r \in Slots :
    /\ WindowWritten(r) =>
         /\ \E sn \in VisibleSnapshots(r) :
              /\ sn.id = run[r].snapshot
              /\ sn.edge_count =
                   Cardinality({ pr \in run[r].feature_frame.columns
                                        \X run[r].feature_frame.columns :
                                   pr[1] # pr[2] /\ PairPasses(r, pr[1], pr[2]) })
         /\ \A src, dst \in run[r].feature_frame.columns :
              src # dst =>
                ( PairPasses(r, src, dst)
                    <=> \E e \in EdgesOf(VisibleEdges(r), run[r].snapshot) :
                          e.source_symbol_id = src /\ e.target_symbol_id = dst )
    /\ run[r].pc = "done" => \E j \in CommittedJob(r) : j.status = "completed"

C21_Witness ==
  \E r \in Slots :
    /\ WindowWritten(r)
    /\ run[r].pc = "done"
    /\ \E src, dst \in run[r].feature_frame.columns :
         src # dst /\ PairRaised(r, src, dst)
    /\ \E e \in EdgesOf(edges, run[r].snapshot) :
         \E other \in run[r].feature_frame.columns :
           PairRaised(r, e.source_symbol_id, other)

\* The snapshots that existed when run r was called and whose
\* (end_date, window_size, method) the run processes.
FoundByRun(r) ==
  { o \in run[r].pre.snapshots :
      /\ o.end_date \in ProcessedDates(r)
      /\ o.window_size = run[r].args.window_size
      /\ o.method = run[r].args.method }

\* C22: a completed run without reset has updated in place every snapshot
\* that existed for a tuple it processes: the row keeps its id and is the only
\* row of its tuple, and its as-of date, window bounds, node and edge counts,
\* provenance metadata and job reference are those of this run.
C22_UpdateInPlace ==
  \A r \in Slots :
    (run[r].pc = "done" /\ ~run[r].args.reset) =>
      \A o \in FoundByRun(r) :
        /\ \E sn \in snapshots :
             /\ sn.id = o.id
             /\ sn.end_date = o.end_date
             /\ sn.window_size = o.window_size
             /\ sn.method = o.method
             /\ sn.as_of_date = o.end_date
             /\ sn.window_end = o.end_date
             /\ sn.window_start = WindowAt(r, o.end_date)[1]
             /\ sn.node_count = Cardinality(run[r].feature_frame.columns)
             /\ sn.edge_count = Cardinality(EdgesOf(edges, sn.id))
             /\ EdgesOf(edges, sn.id) = ComputedEdges(r, sn)
             /\ sn.metadata_json.tickers = run[r].args.tickers
             /\ sn.metadata_json.max_lag = run[r].args.max_lag
             /\ sn.metadata_json.p_threshold = run[r].args.p_threshold
             /\ sn.metadata_json.window_size = run[r].args.window_size
             /\ sn.metadata_json.resolved_tickers =
                  { <<run[r].resolved_symbols[i].requested_ticker,
                      run[r].resolved_symbols[i].used_ticker>> :
                    i \in 1..Len(run[r].resolved_symbols) }
             /\ sn.job_id = run[r].job.id
        /\ \A sn \in snapshots :
             (/\ sn.end_date = o.end_date
              /\ sn.window_size = o.window_size
              /\ sn.method = o.method) => sn.id = o.id

C22_Witness ==
  \E r \in Slots :
    /\ run[r].pc = "done" /\ ~run[r].args.reset
    /\ \E o \in FoundByRun(r) :
         /\ o.job_id # run[r].job.id
         /\ o.metadata_json.max_lag # run[r].args.max_lag
         /\ o.metadata_json.tickers # run[r].args.tickers
         /\ o.node_count # Cardinality(run[r].feature_frame.columns)
         /\ o.edge_count # Cardinality(EdgesOf(edges, o.id))

\* The snapshots of another window size that existed when run r was called,
\* on an end date and for the method the run processes.
OtherWindowSize(r) ==
  { o \in run[r].pre.snapshots :
      /\ o.end_date \in ProcessedDates(r)
      /\ o.window_size # run[r].args.window_size
      /\ o.method = run[r].args.method }

\* C23: a run that processes end date d completes also when a snapshot of
\* another window size exists for d and the method; afterwards that snapshot
\* is as it was, with its edges, and the run's own snapshot for d exists.
C23_IdentityIncludesWindowSize ==
  \A r \in Slots :
    (/\ run[r].pc \in {"done", "raised"}
     /\ run[r].job.id # 0
     /\ OtherWindowSize(r) # {})
      => /\ run[r].pc = "done"
         /\ \A o \in OtherWindowSize(r) :
              /\ o \in snapshots
              /\ EdgesOf(edges, o.id) = EdgesOf(run[r].pre.edges, o.id)
              /\ \E sn \in snapshots :
                   /\ sn.end_date = o.end_date
                   /\ sn.window_size = run[r].args.window_size
                   /\ sn.method = o.method
                   /\ sn.job_id = run[r].job.id

\* The (end_date, window_size, method) tuple run r is working on.
KeyOf(r) == <<LoopDate(r), run[r].args.window_size, run[r].args.method>>

CommittedKey(k) ==
  \E s \in snapshots : <<s.end_date, s.window_size, s.method>> = k

\* C24: concurrent runs over the same tuple are not mutually excluded: the
\* lookup of a run is decided by the committed rows alone, so whatever the
\* other run is doing, a run whose tuple has no committed snapshot finds it
\* absent and goes on to create it.
C24_NoMutualExclusion ==
  [][ \A r \in Slots :
        (/\ run[r].pc = "lookup"
         /\ run'[r].pc \in {"insert", "update"}
         /\ ~CommittedKey(KeyOf(r)))
          => run'[r].pc = "insert" ]_vars

\* Both runs have looked the same tuple up, found it absent, and are about to
\* insert it, each in its own open session.
C24_Witness ==
  /\ run[1].pc = "insert" /\ run[2].pc = "insert"
  /\ KeyOf(1) = KeyOf(2)
  /\ session[1].open /\ session[2].open
  /\ run[1].snapshot = 0 /\ run[2].snapshot = 0
  /\ ~CommittedKey(KeyOf(1))

\* Run r has ended on a fatal condition of lines 262-291 (resolution or data
\* availability).
EndedFailed(r) == run[r].pc = "raised" /\ run[r].error = "RuntimeError"

\* C25: a run with reset=true that ends failed has committed the deletion of
\* its scope together with the failed job: no snapshot of the scope exists,
\* the snapshots and edges outside the scope are those from before the run,
\* and the run wrote no snapshot.
C25_FailedResetCommitsDeletion ==
  \A r \in Slots :
    (EndedFailed(r) /\ run[r].args.reset)
      => /\ \E j \in CommittedJob(r) : j.status = "failed"
         /\ \A s \in snapshots : ~InScope(s, run[r].args)
         /\ snapshots = { s \in run[r].pre.snapshots : ~InScope(s, run[r].args) }
         /\ edges = { e \in run[r].pre.edges :
                        \E s \in snapshots : s.id = e.snapshot_id }

\* A failed reset run before which a snapshot of its scope, with edges,
\* existed.
C25_Witness ==
  \E r \in Slots :
    /\ EndedFailed(r) /\ run[r].args.reset
    /\ \E j \in CommittedJob(r) : j.status = "failed"
    /\ \E s \in run[r].pre.snapshots :
         /\ InScope(s, run[r].args)
         /\ EdgesOf(run[r].pre.edges, s.id) # {}

\* Snapshot s belongs to an (end_date, window_size, method) tuple run r
\* processes.
ProcessedBy(r, s) ==
  /\ s.end_date \in ProcessedDates(r)
  /\ s.window_size = run[r].args.window_size
  /\ s.method = run[r].args.method

\* C26: a run with reset=false deletes no snapshot, and every snapshot that is
\* not of a tuple the run processes keeps all its fields and its edges; the
\* job records of the runs before stay as they were, whatever the run does.
C26_FrameOfRun ==
  \A r \in Slots :
    run[r].pc # "idle"
      => /\ run[r].pre.jobs \subseteq jobs
         /\ ~run[r].args.reset
              => /\ \A s \in run[r].pre.snapshots :
                      \E t \in snapshots : t.id = s.id
                 /\ \A s \in run[r].pre.snapshots :
                      ~ProcessedBy(r, s)
                        => /\ s \in snapshots
                           /\ EdgesOf(edges, s.id) = EdgesOf(run[r].pre.edges, s.id)

\* A completed run without reset that rewrote a snapshot of its tuples and
\* left alone a snapshot, with edges, whose end date lies in its range and
\* whose window size and method are those of the run.
C26_Witness ==
  \E r \in Slots :
    /\ run[r].pc = "done" /\ ~run[r].args.reset
    /\ run[r].pre.jobs # {}
    /\ \E o \in run[r].pre.snapshots : ProcessedBy(r, o) /\ o \notin snapshots
    /\ \E s \in run[r].pre.snapshots :
         /\ InScope(s, run[r].args)
         /\ ~ProcessedBy(r, s)
         /\ s \in snapshots
         /\ EdgesOf(edges, s.id) # {}

\* The snapshots run_granger has written, committed or still in a session.
WrittenSnapshots == snapshots \cup UNION { session[r].snap_put : r \in Slots }

\* The distinct instruments the requested tickers of run r resolve to.
DistinctResolved(r) ==
  { run[r].resolved_symbols[i].symbol_id : i \in 1..Len(run[r].resolved_symbols) }

\* C27: a run completes only with at least two distinct instruments in the
\* aligned frame, and every snapshot written has node_count >= 2 and
\* edge_count <= node_count * (node_count - 1); requested tickers that resolve
\* to one instrument form one column.
C27_NodeAndEdgeCounts ==
  /\ \A s \in WrittenSnapshots :
       /\ s.node_count >= 2
       /\ s.edge_count >= 0
       /\ s.edge_count <= s.node_count * (s.node_count - 1)
  /\ \A r \in Slots :
       run[r].pc = "done"
         => /\ Cardinality(run[r].feature_frame.columns) >= 2
            /\ run[r].feature_frame.columns \subseteq DistinctResolved(r)
            /\ run[r].feature_frame.index # <<>>

\* A run whose two requested tickers resolve to one instrument passed the
\* two-resolved check and failed on the aligned frame, while a snapshot with
\* edges written by an earlier run exists.
C27_Witness ==
  \E r \in Slots :
    /\ EndedFailed(r)
    /\ Len(run[r].resolved_symbols) >= 2
    /\ Cardinality(DistinctResolved(r)) = 1
    /\ run[r].job.error_message = "Not enough aligned symbol series after inner join"
    /\ \E s \in snapshots : s.node_count >= 2 /\ s.edge_count > 0

\* The aligned frame of run r is not empty and has at least two columns, but
\* fewer aligned dates than a window needs.
ShortFrame(r) ==
  /\ run[r].pc \notin {"idle", "crashed"}
  /\ Cardinality(run[r].feature_frame.columns) >= 2
  /\ run[r].feature_frame.index # <<>>
  /\ Len(run[r].feature_frame.index) < run[r].args.window_size

\* C28: a run whose aligned frame has at least two columns but fewer than
\* window_size aligned dates emits no window and writes no snapshot, and it
\* ends completed with an empty snapshot id list and an empty edge-count map.
C28_ShortFrameCompletesEmpty ==
  \A r \in Slots :
    ShortFrame(r)
      => /\ run[r].pc \in {"loop", "done"}
         /\ run[r].generated_snapshot_ids = <<>>
         /\ run[r].edge_counts_by_snapshot = <<>>
         /\ \A s \in WrittenSnapshots : s.job_id # run[r].job.id
         /\ run[r].pc = "done"
              => /\ \E j \in CommittedJob(r) :
                      /\ j.status = "completed"
                      /\ j.error_message = ""
                      /\ j.result = [snapshot_ids |-> <<>>, edge_counts |-> <<>>]
                 /\ snapshots \subseteq run[r].pre.snapshots
                 /\ ~run[r].args.reset => snapshots = run[r].pre.snapshots

\* A run with a short aligned frame has completed, with snapshots of earlier
\* runs present.
C28_Witness ==
  \E r \in Slots :
    /\ ShortFrame(r)
    /\ run[r].pc = "done"
    /\ \E j \in CommittedJob(r) : j.status = "completed"
    /\ snapshots # {}

\* The lags of the scanned p-values that can become the best: a number
\* strictly below 1.
BelowOne == { l \in 1..Len(scan.result) :
                scan.result[l] # NaN /\ scan.result[l] < POne }

\* The lags that attain the minimum p-value.
MinimumLags == { l \in BelowOne : \A k \in BelowOne : scan.result[l] <= scan.result[k] }

\* C29: the scan of _evaluate_pair returns the minimum p-value with the
\* smallest lag that attains it, and no result when no lag has a p-value
\* strictly below 1.
C29_SmallestLagOfMinimum ==
  scan.pc = "returned"
    => IF BelowOne = {}
       THEN scan.out = NoResult
       ELSE /\ scan.out.ok
            /\ scan.out.lag \in MinimumLags
            /\ \A l \in MinimumLags : scan.out.lag <= l
            /\ scan.out.p = scan.result[scan.out.lag]

\* The minimum is attained by two lags, after a larger p-value at lag 1, and
\* the smaller of the two lags is returned.
C29_Witness ==
  /\ scan.pc = "returned"
  /\ Cardinality(MinimumLags) >= 2
  /\ 1 \notin MinimumLags
  /\ 1 \in BelowOne
  /\ scan.out.ok
  /\ \A l \in MinimumLags : scan.out.lag <= l

\* The stored edges of the snapshot of the response.
StoredEdges == EdgesOf(edges, response.body.snapshot_id)

\* Position of a ticker in Python's string order.
TickerRank(t) == CHOOSE i \in 1..Len(SortedTickers) : SortedTickers[i] = t

\* C30: a frame returned by GET /frames or GET /frames/{snapshot_id} holds
\* only edges of the snapshot whose stored p_value is <= the query's
\* p_threshold and whose lag is <= the query's max_lag, and its nodes are
\* the tickers that are an endpoint of a returned edge, sorted and without
\* duplicates.
C30_FrameFiltersEdges ==
  response.status = 200
    => /\ \A fe \in response.body.edges :
            \E e \in StoredEdges :
              /\ symbol_map(e.source_symbol_id) = fe.src
              /\ symbol_map(e.target_symbol_id) = fe.dst
              /\ e.p_value = fe.p_value
              /\ e.lag = fe.lag
              /\ e.p_value * 10 <= response.p_threshold
              /\ e.lag <= response.max_lag
       /\ { response.body.nodes[i] : i \in 1..Len(response.body.nodes) }
            = { fe.src : fe \in response.body.edges }
              \cup { fe.dst : fe \in response.body.edges }
       /\ \A i \in 1..Len(response.body.nodes), j \in 1..Len(response.body.nodes) :
            i < j => TickerRank(response.body.nodes[i]) < TickerRank(response.body.nodes[j])

\* A frame with a returned edge, an edge left out for its p_value, an edge
\* left out for its lag, and an instrument of the snapshot that is no node.
C30_Witness ==
  /\ response.status = 200
  /\ response.body.edges # {}
  /\ \E e \in StoredEdges : e.p_value * 10 > response.p_threshold
  /\ \E e \in StoredEdges : e.lag > response.max_lag
  /\ \E sn \in snapshots :
       sn.id = response.body.snapshot_id /\ Len(response.body.nodes) < sn.node_count


====
